---- MODULE Spec2Model ----
(***************************************************************************)
(* A model of the GPS NMEA-0183 receiver of src/GPS.c and src/GPS.h: the   *)
(* interrupt callback that accumulates bytes (GPS_CallBack), the           *)
(* processing pass (GPS_Process) and the per-sentence decoders with their  *)
(* POSIX extended regular expressions.                                     *)
(*                                                                         *)
(* Conventions.                                                            *)
(*  - A byte is a one-character string; the null byte is NUL.              *)
(*  - A C string is a sequence of bytes; offsets into it are 0-based as in *)
(*    C, so the byte at offset p of str is str[p + 1].                     *)
(*  - float/double values are kept in fixed point: atoff yields            *)
(*    thousandths, convertDegMinToDecDeg yields millionths of a degree.    *)
(*  - GPS_t is the record gps = [buffer, gpgga, gprmc, gpvtg, gpzda]; the   *)
(*    regmatch_t arrays are scratch written by regexec and read in the     *)
(*    same decoder call, so they are values of the call, not state.        *)
(***************************************************************************)
EXTENDS Integers, Sequences, FiniteSets, TLC

\* -------------------------------------------------------------- build options
\* GPS.h lets the build override GPS_BUFFER_SIZE (#ifndef); the model is built
\* with a buffer of 64 bytes, which holds two sentences, instead of the default
\* 512.
GPS_BUFFER_SIZE == 64

\* The idle threshold GPS.h defines, in ms.
GPS_MS_BEFORE_CHECK == 50

\* The last tick HAL_GetTick() reaches in the model.
MaxTick == 1

\* The number of bursts of bytes the UART delivers in a run.
MaxBursts == 2

\* The sets of sentence types a build enables (GPS_GPxxx_ENABLED).
Configs == {{"GPRMC"}, {"GPGGA", "GPRMC"}}

\* -------------------------------------------------------------- bytes
NUL == "NUL"

Digit == {"0", "1", "2", "3", "4", "5", "6", "7", "8", "9"}
Upper == {"A", "B", "C", "D", "E", "F", "G", "H", "I", "J", "K", "L", "M",
          "N", "O", "P", "Q", "R", "S", "T", "U", "V", "W", "X", "Y", "Z"}
Lower == {"a", "b", "c", "d", "e", "f", "g", "h", "i", "j", "k", "l", "m",
          "n", "o", "p", "q", "r", "s", "t", "u", "v", "w", "x", "y", "z"}
Alnum == Digit \cup Upper \cup Lower

DigitVal == "0" :> 0 @@ "1" :> 1 @@ "2" :> 2 @@ "3" :> 3 @@ "4" :> 4 @@
            "5" :> 5 @@ "6" :> 6 @@ "7" :> 7 @@ "8" :> 8 @@ "9" :> 9

\* -------------------------------------------------------------- regex.h
\* A regular expression is a sequence of elements: a bracket expression or
\* literal with a repetition range [cls, min, max] (max < 0: unbounded), or
\* the opening / closing parenthesis of a capture group.
Lit(c) == [k |-> "atom", cls |-> {c}, min |-> 1, max |-> 1]
Star(cls) == [k |-> "atom", cls |-> cls, min |-> 0, max |-> -1]
Opt(cls) == [k |-> "atom", cls |-> cls, min |-> 0, max |-> 1]
Rep(cls, n) == [k |-> "atom", cls |-> cls, min |-> n, max |-> n]
Open == [k |-> "open", cls |-> {}, min |-> 0, max |-> 0]
Close == [k |-> "close", cls |-> {}, min |-> 0, max |-> 0]

\* ( body )? : a capture group that takes part in the match or is skipped.
OptGrp(body) == [k |-> "optgrp", cls |-> {}, min |-> 0, max |-> 1, body |-> body]

Lits(s) == [i \in 1..Len(s) |-> Lit(s[i])]
Grp(re) == <<Open>> \o re \o <<Close>>
\* [[:digit:]]*\.?[[:digit:]]*
Decimal == <<Star(Digit), Opt({"."}), Star(Digit)>>
\* -?[[:digit:]]*\.?[[:digit:]]*
SignedDecimal == <<Opt({"-"})>> \o Decimal

GPS_GPGGA_REGEX_STRING ==
    Lits(<<"$", "G", "P", "G", "G", "A", ",">>)
    \o Grp(<<Star(Digit)>>) \o <<Opt({"."})>>           \*  1
    \o Grp(<<Star(Digit)>>) \o <<Lit(",")>>             \*  2
    \o Grp(Decimal) \o <<Lit(",")>>                     \*  3
    \o Grp(<<Opt({"N", "S"})>>) \o <<Lit(",")>>         \*  4
    \o Grp(Decimal) \o <<Lit(",")>>                     \*  5
    \o Grp(<<Opt({"E", "W"})>>) \o <<Lit(",")>>         \*  6
    \o Grp(<<Opt(Digit)>>) \o <<Lit(",")>>              \*  7
    \o Grp(<<Rep(Digit, 2)>>) \o <<Lit(",")>>           \*  8
    \o Grp(Decimal) \o <<Lit(",")>>                     \*  9
    \o Grp(SignedDecimal) \o <<Lit(",")>>               \* 10
    \o Grp(<<Opt({"M", "F"})>>) \o <<Lit(",")>>         \* 11
    \o Grp(SignedDecimal) \o <<Lit(",")>>               \* 12
    \o Grp(<<Opt({"M", "F"})>>) \o <<Lit(",")>>         \* 13
    \o Grp(Decimal) \o <<Lit(",")>>                     \* 14
    \o Grp(<<Star(Digit)>>)                             \* 15
    \o <<Lit("*")>> \o Grp(<<Rep(Alnum, 2)>>)           \* 16

GPS_GPRMC_REGEX_STRING ==
    Lits(<<"$", "G", "P", "R", "M", "C", ",">>)
    \o Grp(<<Star(Digit)>>) \o <<Opt({"."})>>           \*  1
    \o Grp(<<Star(Digit)>>) \o <<Lit(",")>>             \*  2
    \o Grp(<<Opt({"A", "V"})>>) \o <<Lit(",")>>         \*  3
    \o Grp(Decimal) \o <<Lit(",")>>                     \*  4
    \o Grp(<<Opt({"N", "S"})>>) \o <<Lit(",")>>         \*  5
    \o Grp(Decimal) \o <<Lit(",")>>                     \*  6
    \o Grp(<<Opt({"E", "W"})>>) \o <<Lit(",")>>         \*  7
    \o Grp(Decimal) \o <<Lit(",")>>                     \*  8
    \o Grp(Decimal) \o <<Lit(",")>>                     \*  9
    \o Grp(<<Star(Digit)>>) \o <<Lit(",")>>             \* 10
    \o Grp(Decimal) \o <<Lit(",")>>                     \* 11
    \o Grp(<<Opt({"E", "W"})>>) \o <<Lit(",")>>         \* 12
    \o Grp(<<Opt({"N", "A", "D", "E"})>>)               \* 13
    \o <<Lit("*")>> \o Grp(<<Rep(Alnum, 2)>>)           \* 14

GPS_GPVTG_REGEX_STRING ==
    Lits(<<"$", "G", "P", "V", "T", "G", ",">>)
    \o Grp(Decimal) \o <<Lit(",")>>                     \*  1
    \o Grp(<<Opt({"T"})>>) \o <<Lit(",")>>              \*  2
    \o Grp(Decimal) \o <<Lit(",")>>                     \*  3
    \o Grp(<<Opt({"M"})>>) \o <<Lit(",")>>              \*  4
    \o Grp(Decimal) \o <<Lit(",")>>                     \*  5
    \o Grp(<<Opt({"N"})>>) \o <<Lit(",")>>              \*  6
    \o Grp(Decimal) \o <<Lit(",")>>                     \*  7
    \o Grp(<<Opt({"K"})>>) \o <<Lit(",")>>              \*  8
    \o Grp(<<Opt({"N", "A", "D", "E"})>>)               \*  9
    \o <<Lit("*")>> \o Grp(<<Rep(Alnum, 2)>>)           \* 10

\* Groups 3 to 7 are optional as groups, ( ... )?, and a comma follows group 7
\* before the asterisk.
GPS_GPZDA_REGEX_STRING ==
    Lits(<<"$", "G", "P", "Z", "D", "A", ",">>)
    \o Grp(<<Star(Digit)>>) \o <<Opt({"."})>>                       \*  1
    \o Grp(<<Star(Digit)>>) \o <<Lit(",")>>                         \*  2
    \o <<OptGrp(<<Rep(Digit, 2)>>), Lit(",")>>                      \*  3
    \o <<OptGrp(<<Rep(Digit, 2)>>), Lit(",")>>                      \*  4
    \o <<OptGrp(<<Rep(Digit, 4)>>), Lit(",")>>                      \*  5
    \o <<OptGrp(<<Opt({"-"}), Rep(Digit, 2)>>), Lit(",")>>          \*  6
    \o <<OptGrp(<<Opt({"-"}), Rep(Digit, 2)>>), Lit(",")>>          \*  7
    \o <<Lit("*")>> \o Grp(<<Rep(Alnum, 2)>>)                       \*  8

\* What regexec returns when nothing matches (regex.h); the decoders return it
\* and GPS_Process only tests it against 0.
REG_NOMATCH == 1

\* The element of a one-element set. A value that is used several times is
\* bound as the element of a singleton, { ... : x \in {value}}, so that it is
\* computed once.
The(S) == CHOOSE x \in S : TRUE

NoMatch == [result |-> REG_NOMATCH, start |-> -1, rm_so |-> <<>>, rm_eo |-> <<>>]

\* The number of bytes of str from offset pos on that lie in cls, at most max
\* of them (a negative max: no limit).
RECURSIVE Take(_, _, _, _)
Take(str, pos, cls, max) ==
    IF max = 0 \/ pos >= Len(str) THEN 0
    ELSE IF str[pos + 1] \notin cls THEN 0
    ELSE 1 + Take(str, pos + 1, cls, max - 1)

\* The offset after the atoms body[i..] matched at offset pos, -1 when they do
\* not match there.
RECURSIVE MatchAtoms(_, _, _, _)
MatchAtoms(body, i, str, pos) ==
    IF i > Len(body) THEN pos
    ELSE LET n == Take(str, pos, body[i].cls, body[i].max)
         IN  IF n < body[i].min THEN -1
             ELSE MatchAtoms(body, i + 1, str, pos + n)

\* One element of a regular expression applied to the match state st =
\* [result, pos, rm_so, rm_eo] of a match in progress at offset st.pos. An
\* optional group that does not take part in the match leaves rm_so = rm_eo =
\* -1 for its index, as regexec does.
MatchElement(e, str, st) ==
    IF st.result # 0 THEN st
    ELSE IF e.k = "open" THEN [st EXCEPT !.rm_so = Append(@, st.pos)]
    ELSE IF e.k = "close" THEN [st EXCEPT !.rm_eo = Append(@, st.pos)]
    ELSE IF e.k = "optgrp"
    THEN The({IF end < 0
              THEN [st EXCEPT !.rm_so = Append(@, -1), !.rm_eo = Append(@, -1)]
              ELSE [st EXCEPT !.rm_so = Append(@, st.pos), !.rm_eo = Append(@, end),
                              !.pos = end] :
                  end \in {MatchAtoms(e.body, 1, str, st.pos)}})
    ELSE LET n == Take(str, st.pos, e.cls, e.max)
         IN  IF n < e.min THEN [st EXCEPT !.result = REG_NOMATCH]
             ELSE [st EXCEPT !.pos = @ + n]

\* The elements re[lo..hi] applied in order. Every repetition of these
\* expressions is followed by an element its class excludes, so the longest
\* repetition is the only one that can lead to a match and POSIX's
\* leftmost-longest rule needs no backtracking.
RECURSIVE MatchRange(_, _, _, _, _)
MatchRange(re, lo, hi, str, st) ==
    IF lo = hi THEN MatchElement(re[lo], str, st)
    ELSE The({IF left.result # 0 THEN left
              ELSE MatchRange(re, ((lo + hi) \div 2) + 1, hi, str, left) :
                  left \in {MatchRange(re, lo, (lo + hi) \div 2, str, st)}})

\* The match of re against str that starts at offset pos.
MatchFrom(re, str, pos) ==
    The({IF st.result = 0
         THEN [result |-> 0, start |-> pos, rm_so |-> st.rm_so, rm_eo |-> st.rm_eo]
         ELSE [result |-> REG_NOMATCH, start |-> pos, rm_so |-> <<>>, rm_eo |-> <<>>] :
             st \in {MatchRange(re, 1, Len(re), str,
                                [result |-> 0, pos |-> pos,
                                 rm_so |-> <<>>, rm_eo |-> <<>>])}})

\* The matches of re in str: the match from each offset at which the first
\* element of re matches, when there is one.
Matches(re, str) ==
    LET first == {i \in 0..(Len(str) - 1) :
                     Take(str, i, re[1].cls, re[1].max) >= re[1].min}
    IN  {m \in {MatchFrom(re, str, i) : i \in first} : m.result = 0}

\* regexec(&regex, string, nmatch, pmatch, 0): the leftmost match. rm_so[i] and
\* rm_eo[i] are the offsets of capture group i (group 0, the whole match, is
\* never read by the decoders and is left out).
regexec(re, str) ==
    The({IF ms = {} THEN NoMatch
         ELSE CHOOSE m \in ms : \A n \in ms : m.start <= n.start :
             ms \in {Matches(re, str)}})

\* -------------------------------------------------------------- stdlib.h
\* The value of the run of decimal digits of str at offset pos.
RECURSIVE DigitsValue(_, _, _)
DigitsValue(str, pos, acc) ==
    IF pos >= Len(str) THEN acc
    ELSE IF str[pos + 1] \notin Digit THEN acc
    ELSE DigitsValue(str, pos + 1, 10 * acc + DigitVal[str[pos + 1]])

ByteAt(str, pos) == IF pos < Len(str) THEN str[pos + 1] ELSE NUL

\* atoi / atol / atoll: an optional sign, then digits, stopping at the first
\* byte that is no digit. (The leading white space they skip is not in the
\* model's alphabet.)
atoll(str, pos) ==
    IF ByteAt(str, pos) = "-" THEN -DigitsValue(str, pos + 1, 0)
    ELSE IF ByteAt(str, pos) = "+" THEN DigitsValue(str, pos + 1, 0)
    ELSE DigitsValue(str, pos, 0)

\* The first three digits after offset pos read as thousandths (missing digits
\* count as 0).
FracMilli(str, pos) ==
    LET d(i) == IF ByteAt(str, pos + i) \in Digit /\ Take(str, pos, Digit, i + 1) = i + 1
                THEN DigitVal[ByteAt(str, pos + i)] ELSE 0
    IN  100 * d(0) + 10 * d(1) + d(2)

\* atoff: an optional sign, digits, an optional point and digits; the value in
\* thousandths, digits past the third decimal dropped.
atoff(str, pos) ==
    LET neg == ByteAt(str, pos) = "-"
        p == IF ByteAt(str, pos) \in {"-", "+"} THEN pos + 1 ELSE pos
        n == Take(str, p, Digit, -1)
        whole == DigitsValue(str, p, 0)
        frac == IF ByteAt(str, p + n) = "." THEN FracMilli(str, p + n + 1) ELSE 0
        v == 1000 * whole + frac
    IN  IF neg THEN -v ELSE v

ToUint8(x) == x % 256
ToUint16(x) == x % 65536
\* Narrowing to uint32_t: the digit runs the model feeds are at most nine
\* digits long, so every value read stays below 2^31 and is kept as it is.
ToUint32(x) == x
ToInt8(x) == ((x + 128) % 256) - 128

\* -------------------------------------------------------------- GPS.c
\* fmod(deg_min, 100.0) and (int)(deg_min / 100) on thousandths; the result in
\* millionths of a degree.
convertDegMinToDecDeg(deg_min, is_negative) ==
    LET min == deg_min % 100000
        deg == deg_min \div 100000
        dec_deg == 1000000 * deg + (1000 * min) \div 60
    IN  IF is_negative THEN -dec_deg ELSE dec_deg

\* a && b in the place of a || b.
LogicalOr_And(a, b) == IF a # 0 /\ b # 0 THEN 1 ELSE 0

\* The value of the C expression a || b.
LogicalOr(a, b) == IF a # 0 \/ b # 0 THEN 1 ELSE 0

\* memset(gps, 0, sizeof(GPS_t)): the zeroed members of GPS_t.
ZeroChars == [i \in 0..(GPS_BUFFER_SIZE - 1) |-> NUL]

ZeroBuffer ==
    [updated_ms |-> 0, chars |-> ZeroChars, char_interrupt |-> NUL, next_index |-> 0]

ZeroGPGGA ==
    [updated_ms |-> 0, utc_h |-> 0, utc_m |-> 0, utc_s |-> 0, utc_us |-> 0,
     lat |-> 0, lon |-> 0, quality |-> 0, num_sats |-> 0, hdop |-> 0,
     alt |-> 0, alt_unit |-> NUL, geo |-> 0, geo_unit |-> NUL, aoc |-> 0,
     station |-> <<NUL, NUL, NUL, NUL>>, check |-> <<NUL, NUL>>]

\* lat_valid and lon_valid are assigned by the decoders (GPS.c:236, 245, 347,
\* 356) although GPRMC_t declares no such members.
ZeroGPRMC ==
    [updated_ms |-> 0, utc_h |-> 0, utc_m |-> 0, utc_s |-> 0, utc_s_frac |-> 0,
     nav_warn |-> NUL, lat |-> 0, lon |-> 0, speed_kt |-> 0, course_t |-> 0,
     utc_day |-> 0, utc_mon |-> 0, utc_year |-> 0, var |-> 0, var_c |-> NUL,
     mode |-> NUL, check |-> <<NUL, NUL>>, lat_valid |-> 0, lon_valid |-> 0]

ZeroGPVTG ==
    [updated_ms |-> 0, course_t |-> 0, course_t_c |-> NUL, course_m |-> 0,
     course_m_c |-> NUL, speed_kt |-> 0, speed_kt_c |-> NUL, speed_km |-> 0,
     speed_km_c |-> NUL, mode |-> NUL, check |-> <<NUL, NUL>>]

ZeroGPZDA ==
    [updated_ms |-> 0, utc_h |-> 0, utc_m |-> 0, utc_s |-> 0, utc_us |-> 0,
     utc_day |-> 0, utc_month |-> 0, utc_year |-> 0, utc_local_hours |-> 0,
     utc_local_minutes |-> 0, check |-> <<NUL, NUL>>]

\* strlen over chars[lo..hi]: the index of the first null byte in it, hi + 1
\* when it holds none.
RECURSIVE FirstNul(_, _, _)
FirstNul(chars, lo, hi) ==
    IF lo = hi THEN (IF chars[lo] = NUL THEN lo ELSE hi + 1)
    ELSE The({IF left <= (lo + hi) \div 2 THEN left
              ELSE FirstNul(chars, ((lo + hi) \div 2) + 1, hi) :
                  left \in {FirstNul(chars, lo, (lo + hi) \div 2)}})

\* The C string that starts at chars[0]: the bytes before the first null byte.
CString(chars) ==
    LET n == FirstNul(chars, 0, GPS_BUFFER_SIZE - 1)
    IN  SubSeq([i \in 1..GPS_BUFFER_SIZE |-> chars[i - 1]], 1, n)

\* memcpy(dst, &string[so], eo - so) into a char array dst.
memcpy(dst, str, so, eo) ==
    [i \in 1..Len(dst) |-> IF i <= eo - so THEN ByteAt(str, so + i - 1) ELSE dst[i]]

BoolInt(b) == IF b THEN 1 ELSE 0

\* The field walk of GPS_Process_GPGGA on a match m of string. Fields 3 to 6
\* are assigned through gprmc, as the source has it. station[4] and check[2]
\* are adjacent members of GPGGA_t and the copy of field 15 has the length of
\* the field, so a fifth and sixth digit land in check before field 16 is
\* copied over them. (A longer field writes past GPGGA_t; the sentences fed
\* here have at most six digits.)
GPGGA_Fields(gps, string, m, current_ms) ==
    LET so == m.rm_so
        eo == m.rm_eo
        hours_minutes_seconds == ToUint32(atoll(string, so[1]))
        station_check == memcpy(gps.gpgga.station \o gps.gpgga.check,
                                string, so[15], eo[15])
    IN  [gps EXCEPT
           !.gpgga.updated_ms = current_ms,
           !.gpgga.utc_h = ToUint8((hours_minutes_seconds \div 10000) % 100),
           !.gpgga.utc_m = ToUint8((hours_minutes_seconds \div 100) % 100),
           !.gpgga.utc_s = ToUint8(hours_minutes_seconds % 100),
           !.gpgga.utc_us = ToUint16(atoll(string, so[2])),
           !.gprmc.lat_valid = BoolInt(eo[3] > so[3]),
           !.gprmc.lat = convertDegMinToDecDeg(atoff(string, so[3]),
                                               ByteAt(string, so[4]) = "S"),
           !.gprmc.lon_valid = BoolInt(eo[5] > so[5]),
           !.gprmc.lon = convertDegMinToDecDeg(atoff(string, so[5]),
                                               ByteAt(string, so[6]) = "W"),
           !.gpgga.quality = ToUint8(atoll(string, so[7])),
           !.gpgga.num_sats = ToUint8(atoll(string, so[8])),
           !.gpgga.hdop = atoff(string, so[9]),
           !.gpgga.alt = atoff(string, so[10]),
           !.gpgga.alt_unit = IF ByteAt(string, so[11]) \in {"M", "F"}
                              THEN ByteAt(string, so[11]) ELSE @,
           !.gpgga.geo = atoff(string, so[12]),
           !.gpgga.geo_unit = IF ByteAt(string, so[13]) \in {"M", "F"}
                              THEN ByteAt(string, so[13]) ELSE @,
           !.gpgga.aoc = ToInt8(atoll(string, so[14])),
           !.gpgga.station = SubSeq(station_check, 1, 4),
           !.gpgga.check = memcpy(SubSeq(station_check, 5, 6), string, so[16], eo[16])]

\* int GPS_Process_GPGGA(GPS_t* gps, uint32_t current_ms)
GPS_Process_GPGGA(gps, current_ms) ==
    The({The({IF m.result = 0
              THEN [gps |-> GPGGA_Fields(gps, string, m, current_ms), result |-> 0]
              ELSE [gps |-> gps, result |-> m.result] :
                  m \in {regexec(GPS_GPGGA_REGEX_STRING, string)}}) :
             string \in {CString(gps.buffer.chars)}})

\* The field walk of GPS_Process_GPRMC on a match m of string. speed_kt is
\* assigned twice (field 2, then field 8); utc_s_frac is never assigned.
GPRMC_Fields(gps, string, m, current_ms) ==
    LET so == m.rm_so
        eo == m.rm_eo
        hours_minutes_seconds == ToUint32(atoll(string, so[1]))
        day_mon_year == ToUint32(atoll(string, so[10]))
    IN  [gps EXCEPT
           !.gprmc.updated_ms = current_ms,
           !.gprmc.utc_h = ToUint8((hours_minutes_seconds \div 10000) % 100),
           !.gprmc.utc_m = ToUint8((hours_minutes_seconds \div 100) % 100),
           !.gprmc.utc_s = ToUint8(hours_minutes_seconds % 100),
           !.gprmc.speed_kt = 1000 * atoll(string, so[2]),
           !.gprmc.nav_warn = IF ByteAt(string, so[3]) \in {"A", "V"}
                              THEN ByteAt(string, so[3]) ELSE @,
           !.gprmc.lat_valid = BoolInt(eo[4] > so[4]),
           !.gprmc.lat = convertDegMinToDecDeg(atoff(string, so[4]),
                                               ByteAt(string, so[5]) = "S"),
           !.gprmc.lon_valid = BoolInt(eo[6] > so[6]),
           !.gprmc.lon = convertDegMinToDecDeg(atoff(string, so[6]),
                                               ByteAt(string, so[7]) = "W"),
           !.gprmc.speed_kt = atoff(string, so[8]),
           !.gprmc.course_t = atoff(string, so[9]),
           !.gprmc.utc_day = ToUint8((day_mon_year \div 10000) % 100),
           !.gprmc.utc_mon = ToUint8((day_mon_year \div 100) % 100),
           !.gprmc.utc_year = ToUint16((day_mon_year % 100) + 2000),
           !.gprmc.var = atoff(string, so[11]),
           !.gprmc.var_c = IF ByteAt(string, so[12]) \in {"E", "W"}
                           THEN ByteAt(string, so[12]) ELSE @,
           !.gprmc.mode = IF ByteAt(string, so[13]) \in {"N", "A", "D", "E"}
                          THEN ByteAt(string, so[13]) ELSE @,
           !.gprmc.check = memcpy(@, string, so[14], eo[14])]

\* int GPS_Process_GPRMC(GPS_t* gps, uint32_t current_ms)
GPS_Process_GPRMC(gps, current_ms) ==
    The({The({IF m.result = 0
              THEN [gps |-> GPRMC_Fields(gps, string, m, current_ms), result |-> 0]
              ELSE [gps |-> gps, result |-> m.result] :
                  m \in {regexec(GPS_GPRMC_REGEX_STRING, string)}}) :
             string \in {CString(gps.buffer.chars)}})

\* The field walk of GPS_Process_GPVTG on a match m of string. mode is
\* assigned whatever byte group 9 starts at.
GPVTG_Fields(gps, string, m, current_ms) ==
    LET so == m.rm_so
        eo == m.rm_eo
    IN  [gps EXCEPT
           !.gpvtg.updated_ms = current_ms,
           !.gpvtg.course_t = atoff(string, so[1]),
           !.gpvtg.course_t_c = IF ByteAt(string, so[2]) = "T" THEN "T" ELSE @,
           !.gpvtg.course_m = atoff(string, so[3]),
           !.gpvtg.course_m_c = IF ByteAt(string, so[4]) = "M" THEN "M" ELSE @,
           !.gpvtg.speed_kt = atoff(string, so[5]),
           !.gpvtg.speed_kt_c = IF ByteAt(string, so[6]) = "N" THEN "N" ELSE @,
           !.gpvtg.speed_km = atoff(string, so[7]),
           !.gpvtg.speed_km_c = IF ByteAt(string, so[8]) = "K" THEN "K" ELSE @,
           !.gpvtg.mode = ByteAt(string, so[9]),
           !.gpvtg.check = memcpy(@, string, so[10], eo[10])]

\* int GPS_Process_GPVTG(GPS_t* gps, uint32_t current_ms)
GPS_Process_GPVTG(gps, current_ms) ==
    The({The({IF m.result = 0
              THEN [gps |-> GPVTG_Fields(gps, string, m, current_ms), result |-> 0]
              ELSE [gps |-> gps, result |-> m.result] :
                  m \in {regexec(GPS_GPVTG_REGEX_STRING, string)}}) :
             string \in {CString(gps.buffer.chars)}})

\* The capture group each field of GPZDA_t that an optional group feeds is
\* read from.
GPZDA_OptionalGroup ==
    [utc_day |-> 3, utc_month |-> 4, utc_year |-> 5,
     utc_local_hours |-> 6, utc_local_minutes |-> 7]

\* The fields GPS_Process_GPZDA reads through &string[-1] on the match m: those
\* whose group took no part in the match.
GPZDA_Stray(m) ==
    {f \in DOMAIN GPZDA_OptionalGroup : m.rm_so[GPZDA_OptionalGroup[f]] < 0}

\* The field walk of GPS_Process_GPZDA on a match m of string. atoi at
\* &string[-1] reads memory in front of chars: the field is left at 0 here and
\* named in GPZDA_Stray, and the step that runs the decoder gives it one of
\* the values the read can produce.
GPZDA_Fields(gps, string, m, current_ms) ==
    LET so == m.rm_so
        eo == m.rm_eo
        hours_minutes_seconds == ToUint32(atoll(string, so[1]))
        atoi(i) == IF so[i] < 0 THEN 0 ELSE atoll(string, so[i])
    IN  [gps EXCEPT
           !.gpzda.updated_ms = current_ms,
           !.gpzda.utc_h = ToUint8((hours_minutes_seconds \div 10000) % 100),
           !.gpzda.utc_m = ToUint8((hours_minutes_seconds \div 100) % 100),
           !.gpzda.utc_s = ToUint8(hours_minutes_seconds % 100),
           !.gpzda.utc_us = ToUint16(atoll(string, so[2])),
           !.gpzda.utc_day = ToUint8(atoi(3)),
           !.gpzda.utc_month = ToUint8(atoi(4)),
           !.gpzda.utc_year = ToUint16(atoi(5)),
           !.gpzda.utc_local_hours = ToInt8(atoi(6)),
           !.gpzda.utc_local_minutes = ToInt8(atoi(7)),
           !.gpzda.check = memcpy(@, string, so[8], eo[8])]

\* int GPS_Process_GPZDA(GPS_t* gps, uint32_t current_ms); stray names the
\* fields read out of bounds.
GPS_Process_GPZDA(gps, current_ms) ==
    The({The({IF m.result = 0
              THEN [gps |-> GPZDA_Fields(gps, string, m, current_ms), result |-> 0,
                    stray |-> GPZDA_Stray(m)]
              ELSE [gps |-> gps, result |-> m.result, stray |-> {}] :
                  m \in {regexec(GPS_GPZDA_REGEX_STRING, string)}}) :
             string \in {CString(gps.buffer.chars)}})

\* What atoi(&string[-1]) can return: the byte in front of chars is not part
\* of the array; it is 0 when that byte is no digit and the digit's value when
\* it is one and the sentence starts at chars[0].
StrayValues == {0, 7}

\* g with the fields named in stray holding the value u read out of bounds.
StrayRead(g, stray, u) ==
    [g EXCEPT !.gpzda =
        [f \in DOMAIN g.gpzda |->
            IF f \notin stray THEN g.gpzda[f]
            ELSE IF f = "utc_year" THEN ToUint16(u)
            ELSE IF f \in {"utc_day", "utc_month"} THEN ToUint8(u)
            ELSE ToInt8(u)]]

\* void GPS_Init(GPS_t* gps, UART_HandleTypeDef* uart)
GPS_Init ==
    [buffer |-> ZeroBuffer, gpgga |-> ZeroGPGGA, gprmc |-> ZeroGPRMC,
     gpvtg |-> ZeroGPVTG, gpzda |-> ZeroGPZDA]

\* GPS_CallBack with the bound of the store off by one.
CallBack_OffByOne(gps, tick_ms) ==
    LET stamped == [gps EXCEPT !.buffer.updated_ms = tick_ms]
        b == gps.buffer
    IN  IF b.char_interrupt # NUL /\ b.next_index <= GPS_BUFFER_SIZE - 1
        THEN [stamped EXCEPT !.buffer.chars[b.next_index] = b.char_interrupt,
                             !.buffer.next_index = @ + 1]
        ELSE stamped

\* GPS_CallBack with the timestamp taken only when the byte is stored.
CallBack_StampOnStore(gps, tick_ms) ==
    LET b == gps.buffer
    IN  IF b.char_interrupt # NUL /\ b.next_index < GPS_BUFFER_SIZE - 1
        THEN [gps EXCEPT !.buffer.updated_ms = tick_ms,
                         !.buffer.chars[b.next_index] = b.char_interrupt,
                         !.buffer.next_index = @ + 1]
        ELSE gps

\* The body of GPS_CallBack: char_interrupt holds the byte the UART received
\* and tick is the value of HAL_GetTick().
CallBack(gps, tick_ms) ==
    LET stamped == [gps EXCEPT !.buffer.updated_ms = tick_ms]
        b == gps.buffer
    IN  IF b.char_interrupt # NUL /\ b.next_index < GPS_BUFFER_SIZE - 1
        THEN [stamped EXCEPT !.buffer.chars[b.next_index] = b.char_interrupt,
                             !.buffer.next_index = @ + 1]
        ELSE stamped

\* The capacity test with > in the place of >=.
BufferFull_Late(gps) == gps.buffer.next_index > GPS_BUFFER_SIZE - 1

\* uint8_t must_clear_buffer = (gps->buffer.next_index >= GPS_BUFFER_SIZE - 1)
BufferFull(gps) == gps.buffer.next_index >= GPS_BUFFER_SIZE - 1

\* One enabled decoder of GPS_Process: r = [gps, result_bool, results, stray]
\* before it, result_bool = GPS_Process_xxx(gps, current_ms) || result_bool
\* after it; results keeps what each decoder returned and stray the fields read
\* out of bounds.
RunDecoder(type, en, r, current_ms) ==
    IF type \notin en THEN r
    ELSE The({[gps |-> d.gps,
               result_bool |-> LogicalOr(d.result, r.result_bool),
               results |-> (type :> d.result) @@ r.results,
               stray |-> IF type = "GPZDA" THEN d.stray ELSE r.stray] :
                  d \in {IF type = "GPGGA" THEN GPS_Process_GPGGA(r.gps, current_ms)
                         ELSE IF type = "GPRMC" THEN GPS_Process_GPRMC(r.gps, current_ms)
                         ELSE IF type = "GPVTG" THEN GPS_Process_GPVTG(r.gps, current_ms)
                         ELSE GPS_Process_GPZDA(r.gps, current_ms)}})

\* The state of GPS_Process before its first decoder: result_bool = 0.
NoneRun(gps) == [gps |-> gps, result_bool |-> 0, results |-> <<>>, stray |-> {}]

\* The decoders GPS_Process runs when there is data available, in its order.
RunDecoders(gps, en, current_ms) ==
    The({RunDecoder("GPZDA", en, r3, current_ms) :
            r3 \in {The({RunDecoder("GPVTG", en, r2, current_ms) :
                r2 \in {The({RunDecoder("GPRMC", en, r1, current_ms) :
                    r1 \in {RunDecoder("GPGGA", en, NoneRun(gps), current_ms)}})}})}})

\* The decision taken on a failure instead of on success.
MustClear_OnFailure(full, result_bool) == full \/ result_bool # 0

\* The decision after the decoders: must_clear_buffer.
MustClear(full, result_bool) == full \/ result_bool = 0

\* A clear that leaves the bytes in place.
ClearChars_Skipped(gps) == gps

\* memset(&(gps->buffer.chars), 0, GPS_BUFFER_SIZE)
ClearChars(gps) == [gps EXCEPT !.buffer.chars = ZeroChars]

\* gps->buffer.next_index = 0
ResetIndex(gps) == [gps EXCEPT !.buffer.next_index = 0]

\* gps->buffer.updated_ms = current_ms
StampBuffer(gps, current_ms) == [gps EXCEPT !.buffer.updated_ms = current_ms]

\* The body of if (must_clear_buffer).
ClearBuffer(gps, current_ms) == StampBuffer(ResetIndex(ClearChars(gps)), current_ms)

\* void GPS_Process(uint32_t current_ms, GPS_t* gps, UART_HandleTypeDef* uart)
\* for a build that enables the sentence types en, run without interruption:
\* the GPS_t it leaves, what its decoders returned and the fields they read out
\* of bounds.
Process(current_ms, gps, en) ==
    LET full == BufferFull(gps)
        data == gps.buffer.next_index > 0
    IN  The({LET must_clear_buffer == IF data THEN MustClear(full, r.result_bool)
                                      ELSE full
             IN  [gps |-> IF must_clear_buffer THEN ClearBuffer(r.gps, current_ms)
                          ELSE r.gps,
                  results |-> r.results,
                  stray |-> r.stray] :
                 r \in {IF data THEN RunDecoders(gps, en, current_ms)
                        ELSE [NoneRun(gps) EXCEPT !.result_bool = 1]}})

\* -------------------------------------------------------------- the byte source
\* $GPRMC,123519.5,A,,,,,,,,,W,D*0F   (32 bytes)
SentenceRmcA ==
    <<"$", "G", "P", "R", "M", "C", ",", "1", "2", "3", "5", "1", "9", ".", "5", ",", "A", ",", ",", ",", ",", ",", ",", ",", ",", ",", "W", ",", "D", "*", "0", "F">>

\* $GPRMC,7,,130.5,S,,,,,,,,*06   (28 bytes)
SentenceRmcB ==
    <<"$", "G", "P", "R", "M", "C", ",", "7", ",", ",", "1", "3", "0", ".", "5", ",", "S", ",", ",", ",", ",", ",", ",", ",", ",", "*", "0", "6">>

\* $GPGGA,,230.5,N,,,,08,,,M,,,,*77   (32 bytes)
SentenceGga ==
    <<"$", "G", "P", "G", "G", "A", ",", ",", "2", "3", "0", ".", "5", ",", "N", ",", ",", ",", ",", "0", "8", ",", ",", ",", "M", ",", ",", ",", ",", "*", "7", "7">>

\* $GPGGA,,4807.038,S,,,,08,,,M,,,,12345*6F   (40 bytes): a position fix at 48 deg 7.038 min south, station ID of five digits
GgaFix ==
    <<"$", "G", "P", "G", "G", "A", ",", ",", "4", "8", "0", "7", ".", "0", "3", "8", ",", "S", ",", ",", ",", ",", "0", "8", ",", ",", ",", "M", ",", ",", ",", ",", "1", "2", "3", "4", "5", "*", "6", "F">>

\* $GPRMC,123519.250,A,,,,,22.4,,,,W,D*17   (38 bytes): time with a fraction, speed, variation direction and mode
RmcFix ==
    <<"$", "G", "P", "R", "M", "C", ",", "1", "2", "3", "5", "1", "9", ".", "2", "5", "0", ",", "A", ",", ",", ",", ",", ",", "2", "2", ".", "4", ",", ",", ",", ",", "W", ",", "D", "*", "1", "7">>

\* $GPRMC,7,X,,,,,,,,,,*24   (23 bytes): well formed but for the status letter X
RmcBadWarn ==
    <<"$", "G", "P", "R", "M", "C", ",", "7", ",", "X", ",", ",", ",", ",", ",", ",", ",", ",", ",", ",", "*", "2", "4">>

\* $GPVTG,,T,,,,,,,*2A   (19 bytes): the mode field empty
VtgNoMode ==
    <<"$", "G", "P", "V", "T", "G", ",", ",", "T", ",", ",", ",", ",", ",", ",", ",", "*", "2", "A">>

\* $GPZDA,7,,,,,,*53   (17 bytes): day, month, year and zone empty
ZdaTimeOnly ==
    <<"$", "G", "P", "Z", "D", "A", ",", "7", ",", ",", ",", ",", ",", ",", "*", "5", "3">>

\* $GPZDA,7,04,07,2002,-05,30,*7B   (30 bytes): every field present
ZdaFull ==
    <<"$", "G", "P", "Z", "D", "A", ",", "7", ",", "0", "4", ",", "0", "7", ",", "2", "0", "0", "2", ",", "-", "0", "5", ",", "3", "0", ",", "*", "7", "B">>

\* Line noise: as many bytes as the buffer has, none of which starts a sentence.
Noise == [i \in 1..GPS_BUFFER_SIZE |-> "x"]

\* A null byte on the line.
NullByte == <<NUL>>

\* The sentences of each type the receiver can send that the type's regular
\* expression matches.
Sentences ==
    [GPGGA |-> {SentenceGga, GgaFix},
     GPRMC |-> {SentenceRmcA, SentenceRmcB, RmcFix},
     GPVTG |-> {VtgNoMode},
     GPZDA |-> {ZdaTimeOnly, ZdaFull}]

\* What the UART can deliver: a burst of bytes, one per interrupt.
Chunks == {SentenceRmcA, SentenceRmcB, SentenceGga, Noise, NullByte}

\* The bursts of the interrupt-level specification.
IsrChunks == {SentenceRmcB, NullByte}

\* The bursts of the decoder-level specification: sentences of the four types.
DecChunks == {GgaFix, RmcFix, SentenceRmcB, RmcBadWarn, VtgNoMode, ZdaTimeOnly, ZdaFull}

\* The builds of the decoder-level specification.
DecConfigs == {{"GPGGA", "GPRMC"}, {"GPRMC"}, {"GPVTG"}, {"GPZDA"}}

\* -------------------------------------------------------------- state
VARIABLES
    gps,        \* the GPS_t object
    enabled,    \* the sentence types of this build
    tick,       \* HAL_GetTick()
    burst,      \* the burst of bytes the UART delivers or has delivered last
    feed,       \* the bytes of burst not yet delivered
    bursts,     \* the number of bursts started
    proc,       \* the GPS_Process call in progress: its position and locals
    last,       \* what the last step was and, for a pass, what it met
    waited,     \* a pass has met only a prefix of the sentence burst holds
    resynced    \* where the run is after a pass cleared a full buffer that
                \* matched nothing: "cleared", then "sentence" once a burst
                \* has started after it, "no" otherwise

vars == <<gps, enabled, tick, burst, feed, bursts, proc, last, waited, resynced>>

Idle == [pc |-> "idle", current_ms |-> 0, must_clear_buffer |-> FALSE, result_bool |-> 0]

NoPass ==
    [op |-> "other", full |-> FALSE, data |-> FALSE, matched |-> {}, cleared |-> FALSE,
     prefix |-> FALSE, retried |-> FALSE, after_resync |-> FALSE, stamped |-> FALSE]

\* The record of sentence type t in g.
Record(g, t) ==
    IF t = "GPGGA" THEN g.gpgga
    ELSE IF t = "GPRMC" THEN g.gprmc
    ELSE IF t = "GPVTG" THEN g.gpvtg
    ELSE g.gpzda

\* The enabled sentence types burst is a sentence of.
BurstTypes == {t \in enabled : burst \in Sentences[t]}

\* The bytes of burst delivered so far.
Delivered == SubSeq(burst, 1, Len(burst) - Len(feed))

\* g with a freshly initialised buffer into which the bytes of s were received.
Fresh(g, s) ==
    [g EXCEPT !.buffer =
        [ZeroBuffer EXCEPT
            !.chars = [i \in 0..(GPS_BUFFER_SIZE - 1) |->
                          IF i < Len(s) THEN s[i + 1] ELSE NUL],
            !.next_index = Len(s)]]

\* The buffer of g is empty: every byte zero and the cursor at 0.
Cleared(g) == g.buffer.chars = ZeroChars /\ g.buffer.next_index = 0

InitWith(configs) ==
    /\ gps = GPS_Init
    /\ enabled \in configs
    /\ tick = 0
    /\ burst = <<>>
    /\ feed = <<>>
    /\ bursts = 0
    /\ proc = Idle
    /\ last = NoPass
    /\ waited = FALSE
    /\ resynced = "no"

Init == InitWith(Configs)

\* HAL_GetTick() advances.
Tick ==
    /\ tick < MaxTick
    /\ tick' = tick + 1
    /\ last' = NoPass
    /\ UNCHANGED <<gps, enabled, burst, feed, bursts, proc, waited, resynced>>

\* The receive interrupt: the UART has stored the next byte of the burst in
\* char_interrupt (the first byte of a new burst of chunks when none is in
\* flight) and calls GPS_CallBack.
Receive(chunks) ==
    /\ feed # <<>> \/ bursts < MaxBursts
    /\ \E b \in (IF feed = <<>> THEN chunks ELSE {burst}) :
        \E rest \in {IF feed = <<>> THEN b ELSE feed} :
            /\ gps' = CallBack([gps EXCEPT !.buffer.char_interrupt = Head(rest)], tick)
            /\ burst' = b
            /\ feed' = Tail(rest)
    /\ bursts' = IF feed = <<>> THEN bursts + 1 ELSE bursts
    /\ last' = [NoPass EXCEPT !.op = "callback",
                              !.full = gps.buffer.next_index >= GPS_BUFFER_SIZE - 1,
                              !.stamped = gps.buffer.updated_ms # tick]
    /\ waited' = (feed # <<>> /\ waited)
    /\ resynced' = IF feed # <<>> THEN resynced
                   ELSE IF resynced = "cleared" THEN "sentence" ELSE "no"
    /\ UNCHANGED <<enabled, tick, proc>>

GPS_CallBack == Receive(Chunks)

\* What a pass that starts in g and ends in g2 met and did, for the record in
\* last: results holds what each decoder returned.
PassRecord(g, g2, results) ==
    LET m == {t \in DOMAIN results : results[t] = 0}
        full == g.buffer.next_index >= GPS_BUFFER_SIZE - 1
        whole == feed = <<>> /\ BurstTypes # {}
    IN  [op |-> "process",
         full |-> full,
         data |-> g.buffer.next_index > 0,
         matched |-> m,
         cleared |-> Cleared(g2) /\ g.buffer.next_index > 0,
         prefix |-> /\ feed # <<>> /\ BurstTypes # {} /\ ~full /\ m = {}
                    /\ CString(g.buffer.chars) = Delivered,
         retried |-> waited /\ whole /\ ~full,
         after_resync |-> resynced = "sentence" /\ whole /\ ~full,
         stamped |-> tick > 0 /\ \E t \in m : Record(g, t).updated_ms # tick]

\* GPS_Process(HAL_GetTick(), gps, uart), run without interruption.
GPS_Process ==
    /\ proc.pc = "idle"
    /\ \E p \in {Process(tick, gps, enabled)} :
        \E u \in StrayValues :
        \E g \in {StrayRead(p.gps, p.stray, u)} :
        \E rec \in {PassRecord(gps, g, p.results)} :
            /\ gps' = g
            /\ last' = rec
            /\ waited' = IF rec.prefix THEN TRUE
                         ELSE IF rec.matched # {} THEN FALSE ELSE waited
            /\ resynced' = IF rec.full /\ rec.matched = {} THEN "cleared"
                           ELSE IF rec.matched # {} \/ rec.cleared THEN "no"
                           ELSE resynced
    /\ UNCHANGED <<enabled, tick, burst, feed, bursts, proc>>

Next == Tick \/ GPS_CallBack \/ GPS_Process

Spec == Init /\ [][Next]_vars

\* -------------------------------------------------------------- interrupt level
\* GPS_Process statement by statement, with the receive interrupt free to fire
\* between any two of them: the source masks no interrupt and takes no lock.
InitIsr == InitWith(Configs)

GPS_CallBack_Isr == Receive(IsrChunks)

Step(pc, g, locals) ==
    /\ gps' = g
    /\ proc' = [locals EXCEPT !.pc = pc]
    /\ last' = [NoPass EXCEPT !.op = proc.pc]
    /\ UNCHANGED <<enabled, tick, burst, feed, bursts, waited, resynced>>

\* GPS.c:161-165: must_clear_buffer, the test for data, result_bool = 0.
Process_Begin ==
    /\ proc.pc = "idle"
    /\ Step(IF gps.buffer.next_index > 0 THEN "gpgga" ELSE "clear", gps,
            [proc EXCEPT !.current_ms = tick,
                         !.must_clear_buffer = BufferFull(gps),
                         !.result_bool = 0])

\* GPS.c:167-169
Process_GPGGA ==
    /\ proc.pc = "gpgga"
    /\ \E r \in {RunDecoder("GPGGA", enabled,
                            [NoneRun(gps) EXCEPT !.result_bool = proc.result_bool],
                            proc.current_ms)} :
        Step("gprmc", r.gps, [proc EXCEPT !.result_bool = r.result_bool])

\* GPS.c:171-173
Process_GPRMC ==
    /\ proc.pc = "gprmc"
    /\ \E r \in {RunDecoder("GPRMC", enabled,
                            [NoneRun(gps) EXCEPT !.result_bool = proc.result_bool],
                            proc.current_ms)} :
        Step("gpvtg", r.gps, [proc EXCEPT !.result_bool = r.result_bool])

\* GPS.c:175-177
Process_GPVTG ==
    /\ proc.pc = "gpvtg"
    /\ \E r \in {RunDecoder("GPVTG", enabled,
                            [NoneRun(gps) EXCEPT !.result_bool = proc.result_bool],
                            proc.current_ms)} :
        Step("gpzda", r.gps, [proc EXCEPT !.result_bool = r.result_bool])

\* GPS.c:179-181
Process_GPZDA ==
    /\ proc.pc = "gpzda"
    /\ \E r \in {RunDecoder("GPZDA", enabled,
                            [NoneRun(gps) EXCEPT !.result_bool = proc.result_bool],
                            proc.current_ms)} :
        \E u \in StrayValues :
            Step("check", StrayRead(r.gps, r.stray, u),
                 [proc EXCEPT !.result_bool = r.result_bool])

\* GPS.c:183-186
Process_Check ==
    /\ proc.pc = "check"
    /\ Step("clear", gps,
            [proc EXCEPT !.must_clear_buffer = MustClear(@, proc.result_bool)])

\* GPS.c:189, 191
Process_Memset ==
    /\ proc.pc = "clear"
    /\ proc.must_clear_buffer
    /\ Step("index", ClearChars(gps), proc)

\* GPS.c:189, 198: nothing to clear, the call returns.
Process_Return ==
    /\ proc.pc = "clear"
    /\ ~proc.must_clear_buffer
    /\ Step("idle", gps, Idle)

\* GPS.c:192
Process_Index ==
    /\ proc.pc = "index"
    /\ Step("stamp", ResetIndex(gps), proc)

\* GPS.c:193, 198: the call returns after clearing.
Process_Stamp ==
    /\ proc.pc = "stamp"
    /\ Step("idle", StampBuffer(gps, proc.current_ms), Idle)

NextIsr ==
    \/ Tick
    \/ GPS_CallBack_Isr
    \/ Process_Begin
    \/ Process_GPGGA
    \/ Process_GPRMC
    \/ Process_GPVTG
    \/ Process_GPZDA
    \/ Process_Check
    \/ Process_Memset
    \/ Process_Return
    \/ Process_Index
    \/ Process_Stamp

SpecIsr == InitIsr /\ [][NextIsr]_vars

\* -------------------------------------------------------------- decoder level
\* The receiver and whole passes as in Spec, over builds of each of the four
\* sentence types and a byte source of sentences that exercise the decoders'
\* fields.
InitDec == InitWith(DecConfigs)

GPS_CallBack_Dec == Receive(DecChunks)

NextDec == Tick \/ GPS_CallBack_Dec \/ GPS_Process

SpecDec == InitDec /\ [][NextDec]_vars

\* -------------------------------------------------------------- properties
\* The step just taken is a whole GPS_Process pass; last' describes it.
Pass == last'.op = "process"

\* The pass just taken left every enabled record as a pass over a freshly
\* initialised buffer that received burst would, and matched every enabled
\* type burst is a sentence of.
DecodedAsFresh ==
    /\ BurstTypes \subseteq last'.matched
    /\ \A t \in enabled :
        Record(gps', t) = Record(Process(tick, Fresh(gps, burst), enabled).gps, t)

\* C1 (as the code has it): a pass over a non-empty buffer below capacity
\* clears the buffer (all bytes zero, next_index = 0) if every enabled decoder
\* matched, and leaves the buffer unchanged if at least one enabled decoder
\* failed to match.
C1_ClearPolicy ==
    [][(Pass /\ last'.data /\ ~last'.full) =>
          IF last'.matched = enabled THEN Cleared(gps')
          ELSE gps'.buffer = gps.buffer]_vars

\* C1 witness: a pass over a non-empty buffer below capacity in a build with
\* two enabled types matched both and cleared the buffer.
C1_Witness ==
    /\ last.op = "process" /\ last.data /\ ~last.full
    /\ Cardinality(enabled) = 2 /\ last.matched = enabled /\ last.cleared

\* C1 as stated: a pass over a non-empty buffer below capacity clears the
\* buffer if every enabled decoder failed to match, and leaves it unchanged if
\* at least one enabled decoder matched.
C1_AsStated ==
    [][(Pass /\ last'.data /\ ~last'.full) =>
          IF last'.matched = {} THEN Cleared(gps')
          ELSE gps'.buffer = gps.buffer]_vars

\* C2: a pass that meets a full buffer in which nothing matches clears the
\* whole buffer (all bytes zero, next_index = 0), and a complete sentence of an
\* enabled type received after that clear, all of it stored before the buffer
\* reaches capacity again, is matched and decoded by the next pass exactly as it
\* would be from a freshly initialised buffer.
C2_Resync ==
    [][Pass => /\ (last'.full /\ last'.matched = {}) => Cleared(gps')
               /\ last'.after_resync => DecodedAsFresh]_vars

\* C2 witness: a pass decoded a sentence received after a full buffer of
\* unmatched bytes had been cleared.
C2_Witness == last.op = "process" /\ last.after_resync /\ last.matched # {}

\* C3: in every reachable state next_index <= GPS_BUFFER_SIZE - 1 and the last
\* byte of chars is zero.
C3_CursorBounded ==
    /\ gps.buffer.next_index <= GPS_BUFFER_SIZE - 1
    /\ gps.buffer.chars[GPS_BUFFER_SIZE - 1] = NUL

\* C3 witness: a byte arrived while the buffer was at capacity and the cursor
\* stayed at GPS_BUFFER_SIZE - 1.
C3_Witness ==
    /\ last.op = "callback" /\ last.full
    /\ gps.buffer.char_interrupt # NUL
    /\ gps.buffer.next_index = GPS_BUFFER_SIZE - 1

\* C4: a pass below capacity that matches nothing leaves the buffer as it was,
\* and once the rest of a sentence whose prefix such a pass has met is received
\* without reaching capacity, the next pass matches and decodes that sentence.
C4_PrefixKept ==
    [][Pass => /\ (last'.data /\ ~last'.full /\ last'.matched = {})
                     => gps'.buffer = gps.buffer
               /\ last'.retried => DecodedAsFresh]_vars

\* C4 witness: a pass decoded a sentence of which an earlier pass had met only
\* a proper prefix.
C4_Witness == last.op = "process" /\ last.retried /\ last.matched # {}

\* The match of re in str that starts last.
LastMatch(re, str) ==
    LET ms == Matches(re, str)
    IN  CHOOSE m \in ms : \A n \in ms : m.start >= n.start

\* C5 as stated: a pass that writes the GPRMC record writes it from the most
\* recently received complete GPRMC sentence in the buffer.
C5_MostRecent ==
    [][(Pass /\ "GPRMC" \in last'.matched) =>
          gps'.gprmc = GPRMC_Fields(gps, CString(gps.buffer.chars),
                                    LastMatch(GPS_GPRMC_REGEX_STRING,
                                              CString(gps.buffer.chars)),
                                    tick).gprmc]_vars

\* C6 as stated: when a GPGGA and a GPRMC sentence are both matched in one
\* pass, the position of the GPGGA sentence is in the GPGGA record and the
\* GPRMC record is what the GPRMC decoder alone makes of it.
C6_OwnRecord ==
    [][(Pass /\ {"GPGGA", "GPRMC"} \subseteq last'.matched) =>
          LET string == CString(gps.buffer.chars)
              gga == regexec(GPS_GPGGA_REGEX_STRING, string)
              rmc == regexec(GPS_GPRMC_REGEX_STRING, string)
          IN  /\ gps'.gpgga.lat =
                     convertDegMinToDecDeg(atoff(string, gga.rm_so[3]),
                                           ByteAt(string, gga.rm_so[4]) = "S")
              /\ gps'.gpgga.lon =
                     convertDegMinToDecDeg(atoff(string, gga.rm_so[5]),
                                           ByteAt(string, gga.rm_so[6]) = "W")
              /\ gps'.gprmc = GPRMC_Fields(gps, string, rmc, tick).gprmc]_vars

\* C7 as stated: in a pass, the record of an enabled type whose decoder does
\* not match is unchanged in every field, and the record of one whose decoder
\* matches has updated_ms = current_ms after the pass.
C7_NoPartialRecord ==
    [][Pass => \A t \in enabled :
                  IF t \in last'.matched THEN Record(gps', t).updated_ms = tick
                  ELSE Record(gps', t).updated_ms = Record(gps, t).updated_ms
                       /\ Record(gps', t) = Record(gps, t)]_vars

\* C8 as stated: whenever GPS_Process returns after clearing, next_index = 0
\* and every byte of chars is zero.
C8_ClearedOnReturn ==
    [][(proc.pc = "stamp" /\ proc'.pc = "idle") => Cleared(gps')]_vars

\* C9 as stated: a pass invoked less than GPS_MS_BEFORE_CHECK after the last
\* received byte runs no decoder, changes no record and clears nothing.
C9_IdleThreshold ==
    [][(Pass /\ tick - gps.buffer.updated_ms < GPS_MS_BEFORE_CHECK) =>
          /\ last'.matched = {}
          /\ gps'.gpgga = gps.gpgga /\ gps'.gprmc = gps.gprmc
          /\ gps'.buffer = gps.buffer]_vars

\* C10 (as the code has it): a pass that starts with the buffer at capacity
\* clears the buffer after its decoders have run: the record of every type
\* that matches in the full buffer is updated and stamped with current_ms.
C10_DecodeThenClear ==
    [][(Pass /\ last'.full) =>
          /\ Cleared(gps')
          /\ \A t \in enabled :
                Record(gps', t) = Record(RunDecoders(gps, enabled, tick).gps, t)
          /\ \A t \in last'.matched : Record(gps', t).updated_ms = tick]_vars

\* C10 witness: a pass at capacity matched a sentence, stamped its record with
\* a new current_ms and cleared the buffer.
C10_Witness ==
    last.op = "process" /\ last.full /\ last.matched # {} /\ last.cleared /\ last.stamped

\* C10 as stated: a pass that starts with the buffer at capacity clears the
\* buffer and updates no record.
C10_AsStated ==
    [][(Pass /\ last'.full) =>
          /\ Cleared(gps')
          /\ gps'.gpgga = gps.gpgga /\ gps'.gprmc = gps.gprmc]_vars

\* C11: GPS_CallBack with received byte b: if b is not the null byte and
\* next_index < GPS_BUFFER_SIZE - 1, b is stored at chars[next_index] and
\* next_index increases by exactly 1 with every other byte of chars unchanged;
\* otherwise chars and next_index are unchanged; in both cases
\* buffer.updated_ms is the current tick and no decoded record is modified.
C11_CallBackFrame ==
    [][last'.op = "callback" =>
          LET b == gps'.buffer.char_interrupt
              n == gps.buffer.next_index
          IN  /\ IF b # NUL /\ n < GPS_BUFFER_SIZE - 1
                 THEN /\ gps'.buffer.chars[n] = b
                      /\ gps'.buffer.next_index = n + 1
                      /\ \A i \in 0..(GPS_BUFFER_SIZE - 1) :
                            i # n => gps'.buffer.chars[i] = gps.buffer.chars[i]
                 ELSE /\ gps'.buffer.chars = gps.buffer.chars
                      /\ gps'.buffer.next_index = n
              /\ gps'.buffer.updated_ms = tick
              /\ \A f \in DOMAIN gps : f # "buffer" => gps'[f] = gps[f]]_vars

\* C11 witness: a null byte arrived at a later tick than the last buffer
\* update while the buffer held data; it was dropped and the timestamp moved.
C11_Witness ==
    /\ last.op = "callback" /\ last.stamped
    /\ gps.buffer.char_interrupt = NUL
    /\ gps.buffer.next_index > 0
    /\ gps.buffer.updated_ms = tick

\* The regular expression of sentence type t.
RegexOf(t) ==
    IF t = "GPGGA" THEN GPS_GPGGA_REGEX_STRING
    ELSE IF t = "GPRMC" THEN GPS_GPRMC_REGEX_STRING
    ELSE IF t = "GPVTG" THEN GPS_GPVTG_REGEX_STRING
    ELSE GPS_GPZDA_REGEX_STRING

\* The text of capture group i of the match m of string is empty.
EmptyField(m, i) == m.rm_eo[i] = m.rm_so[i]

\* C12 as stated: a GPRMC sentence that is well formed except that its status
\* field holds X, outside the field's set {A, V}, is still matched and decoded:
\* the record's updated_ms and its other fields (here the seconds, 7) are
\* updated from the sentence and nav_warn is left as it was.
C12_BadLetterDecoded ==
    [][(Pass /\ "GPRMC" \in enabled /\ CString(gps.buffer.chars) = RmcBadWarn) =>
          /\ "GPRMC" \in last'.matched
          /\ gps'.gprmc.updated_ms = tick
          /\ gps'.gprmc.utc_s = 7
          /\ gps'.gprmc.nav_warn = gps.gprmc.nav_warn]_vars

\* The record field v decoded from letter group i of the match m of string is
\* null when the group's text is empty and that letter otherwise.
LetterOrNull(v, string, m, i) ==
    IF EmptyField(m, i) THEN v = NUL ELSE v = ByteAt(string, m.rm_so[i])

\* C13 as stated: after every successful decode, each optional field whose
\* text is empty in the decoded sentence holds its documented invalid marker,
\* whatever earlier decodes stored there: null for the unit, direction and mode
\* letters (alt_unit, geo_unit, var_c, mode, the course and speed labels) and
\* -1 for the age of correction; a non-empty letter field holds that letter.
C13_InvalidMarkers ==
    [][Pass =>
          LET string == CString(gps.buffer.chars)
              gga == regexec(GPS_GPGGA_REGEX_STRING, string)
              rmc == regexec(GPS_GPRMC_REGEX_STRING, string)
              vtg == regexec(GPS_GPVTG_REGEX_STRING, string)
          IN  /\ "GPGGA" \in last'.matched =>
                    /\ LetterOrNull(gps'.gpgga.alt_unit, string, gga, 11)
                    /\ LetterOrNull(gps'.gpgga.geo_unit, string, gga, 13)
                    /\ EmptyField(gga, 14) => gps'.gpgga.aoc = -1
              /\ "GPRMC" \in last'.matched =>
                    /\ LetterOrNull(gps'.gprmc.var_c, string, rmc, 12)
                    /\ LetterOrNull(gps'.gprmc.mode, string, rmc, 13)
              /\ "GPVTG" \in last'.matched =>
                    /\ LetterOrNull(gps'.gpvtg.course_t_c, string, vtg, 2)
                    /\ LetterOrNull(gps'.gpvtg.course_m_c, string, vtg, 4)
                    /\ LetterOrNull(gps'.gpvtg.speed_kt_c, string, vtg, 6)
                    /\ LetterOrNull(gps'.gpvtg.speed_km_c, string, vtg, 8)
                    /\ LetterOrNull(gps'.gpvtg.mode, string, vtg, 9)]_vars

\* C14 as stated: after a successful decode of a GPGGA sentence whose latitude
\* field is DDMM.mmm with hemisphere H, gpgga.lat is DD + MM.mmm / 60, negated
\* exactly when H is S (4807.038,S gives -48.1173), and gpgga.lon likewise from
\* DDDMM.mmm, negated exactly when its hemisphere is W.
C14_PositionFix ==
    [][(Pass /\ "GPGGA" \in last'.matched) =>
          LET string == CString(gps.buffer.chars)
              gga == regexec(GPS_GPGGA_REGEX_STRING, string)
              deg_min == atoff(string, gga.rm_so[3])
              south == ByteAt(string, gga.rm_so[4]) = "S"
              degrees == 1000000 * (deg_min \div 100000)
                         + (1000 * (deg_min % 100000)) \div 60
              lon_deg_min == atoff(string, gga.rm_so[5])
              west == ByteAt(string, gga.rm_so[6]) = "W"
              lon_degrees == 1000000 * (lon_deg_min \div 100000)
                             + (1000 * (lon_deg_min % 100000)) \div 60
          IN  /\ gps'.gpgga.lat = IF south THEN -degrees ELSE degrees
              /\ gps'.gpgga.lon = IF west THEN -lon_degrees ELSE lon_degrees
              /\ (SubSeq(string, 1, Len(GgaFix)) = GgaFix)
                    => gps'.gpgga.lat = -48117300]_vars

\* C15 as stated: after a successful decode of a GPRMC sentence whose time
\* field is hhmmss.fff, utc_h = hh, utc_m = mm and utc_s = ss (value / 10000
\* mod 100, value / 100 mod 100, value mod 100), utc_s_frac is the number fff
\* and speed_kt is the sentence's speed-over-ground field.
C15_TimeAndSpeed ==
    [][(Pass /\ "GPRMC" \in last'.matched) =>
          LET string == CString(gps.buffer.chars)
              rmc == regexec(GPS_GPRMC_REGEX_STRING, string)
              value == atoll(string, rmc.rm_so[1])
          IN  /\ gps'.gprmc.utc_h = (value \div 10000) % 100
              /\ gps'.gprmc.utc_m = (value \div 100) % 100
              /\ gps'.gprmc.utc_s = value % 100
              /\ gps'.gprmc.utc_s_frac = atoll(string, rmc.rm_so[2])
              /\ gps'.gprmc.speed_kt = atoff(string, rmc.rm_so[8])]_vars

\* C16 as stated: for every buffer content on which a decoder matches, each
\* capture-group start offset the decoder dereferences is an index in
\* [0, next_index] of the buffer (never the -1 of an optional group that took
\* no part in the match), and each verbatim copy into a fixed-width record
\* field writes no more bytes than the field holds (station: 4, check: 2).
C16_InBounds ==
    [][Pass =>
          \A t \in last'.matched :
              LET m == regexec(RegexOf(t), CString(gps.buffer.chars))
                  n == Len(m.rm_so)
              IN  /\ \A i \in 1..n : m.rm_so[i] \in 0..gps.buffer.next_index
                  /\ m.rm_eo[n] - m.rm_so[n] <= 2
                  /\ t = "GPGGA" => m.rm_eo[15] - m.rm_so[15] <= 4]_vars

====
